---- MODULE Spec2Model ----
(***************************************************************************)
(* Model of py4vasp.calculation._magnetism.Magnetism.                      *)
(*                                                                         *)
(* The raw data is an immutable pair of n-dimensional arrays               *)
(* (spin_moments, orbital_moments) indexed [step, component, atom,         *)
(* orbital].  Every accessor of the class is a pure function of the raw    *)
(* data, the selected steps and the selection tag; the state machine       *)
(* selects steps (magnetism[steps]) and calls the accessors, recording     *)
(* what each call returned or raised.                                      *)
(*                                                                         *)
(* Numbers: array entries are integers counting units of 1e-16, so that    *)
(* values on both sides of the 1e-15 display tolerance occur.  Euclidean   *)
(* norms are carried as their squares (sqrt is monotone, so max and >      *)
(* are decided on the squares), and the rescaled display array is carried  *)
(* as the pair (factor, array) with factor = length_moments / sqrt(sq).    *)
(***************************************************************************)
EXTENDS Integers, Sequences, FiniteSets, TLC

VARIABLES raw_data, steps, is_slice, call, result

vars == <<raw_data, steps, is_slice, call, result>>

(***************************************************************************)
(* Bounds of the model.                                                    *)
(***************************************************************************)
MaxSteps == 2
NumAtoms == 2
NumOrbitals == 3

(***************************************************************************)
(* n-dimensional arrays (the numpy capability the module consumes).        *)
(* An array is [shape |-> tuple of extents, data |-> function from index   *)
(* tuples (0-based entries) to integers].  Axis arguments are numpy's:     *)
(* 0-based, negative counts from the end.                                  *)
(***************************************************************************)
RECURSIVE SeqMax(_)
SeqMax(s) == IF s = <<>> THEN 0
             ELSE LET m == SeqMax(Tail(s)) IN IF Head(s) > m THEN Head(s) ELSE m

Indices(shape) ==
    {t \in [1..Len(shape) -> 0..(SeqMax(shape) - 1)] :
        \A k \in 1..Len(shape) : t[k] < shape[k]}

NdArray(shape, F(_)) == [shape |-> shape, data |-> [t \in Indices(shape) |-> F(t)]]

ndim(A) == Len(A.shape)

\* position (1-based) of a numpy axis number in an array of rank n
AxisPos(axis, n) == (IF axis < 0 THEN axis + n ELSE axis) + 1

InsertAt(t, k, v) == SubSeq(t, 1, k - 1) \o <<v>> \o SubSeq(t, k, Len(t))

RemoveAt(t, k) == SubSeq(t, 1, k - 1) \o SubSeq(t, k + 1, Len(t))

\* A[..., i, ...] with a non-negative integer i on one axis: the axis disappears
TakeAxis(A, axis, i) ==
    LET k == AxisPos(axis, ndim(A))
    IN NdArray(RemoveAt(A.shape, k), LAMBDA t : A.data[InsertAt(t, k, i)])

\* A[..., lo:lo+len, ...] on one axis: the axis stays, with extent len
SliceAxis(A, axis, lo, len) ==
    LET k == AxisPos(axis, ndim(A))
    IN NdArray([A.shape EXCEPT ![k] = len],
               LAMBDA t : A.data[[t EXCEPT ![k] = @ + lo]])

\* np.moveaxis(A, source, destination)
MoveAxis(A, source, destination) ==
    LET n == ndim(A)
        s == AxisPos(source, n)
        d == AxisPos(destination, n)
        order == InsertAt(RemoveAt([k \in 1..n |-> k], s), d, s)
    IN NdArray([k \in 1..n |-> A.shape[order[k]]],
               LAMBDA t : A.data[[j \in 1..n |->
                                     t[CHOOSE k \in 1..n : order[k] = j]]])

RECURSIVE SumUpTo(_, _)
SumUpTo(F(_), n) == IF n = 0 THEN 0 ELSE F(n - 1) + SumUpTo(F, n - 1)

\* np.sum(A, axis=axis)
Sum(A, axis) ==
    LET k == AxisPos(axis, ndim(A))
    IN NdArray(RemoveAt(A.shape, k),
               LAMBDA t : SumUpTo(LAMBDA i : A.data[InsertAt(t, k, i)], A.shape[k]))

\* A + B for arrays of the same shape
Add(A, B) == NdArray(A.shape, LAMBDA t : A.data[t] + B.data[t])

\* np.zeros_like(A)
ZerosLike(A) == NdArray(A.shape, LAMBDA t : 0)

\* A[np.newaxis]
NewAxis(A) == NdArray(<<1>> \o A.shape, LAMBDA t : A.data[Tail(t)])

\* np.pad(A.reshape((*A.shape, 1)), (..., (before, after))) on the new last axis
ReshapeAndPadLast(A, before, after) ==
    LET n == ndim(A)
    IN NdArray(A.shape \o <<before + 1 + after>>,
               LAMBDA t : IF t[n + 1] = before THEN A.data[SubSeq(t, 1, n)] ELSE 0)

(***************************************************************************)
(* Step selectors: a single index, or a slice start:stop whose bounds may  *)
(* be omitted (the empty tuple stands for Python's None).                  *)
(***************************************************************************)
None == <<>>

IndexSelector(i) == [slice |-> FALSE, start |-> <<i>>, stop |-> None]

SliceSelector(start, stop) == [slice |-> TRUE, start |-> start, stop |-> stop]

Clip(i, n) == IF i < 0 THEN (IF i + n < 0 THEN 0 ELSE i + n) ELSE (IF i > n THEN n ELSE i)

\* slice.indices(n) for a slice of stride 1: out-of-range bounds are clipped
SliceStart(sel, n) == IF sel.start = None THEN 0 ELSE Clip(sel.start[1], n)

SliceStop(sel, n) == IF sel.stop = None THEN n ELSE Clip(sel.stop[1], n)

SliceLen(sel, n) ==
    IF SliceStop(sel, n) > SliceStart(sel, n)
    THEN SliceStop(sel, n) - SliceStart(sel, n) ELSE 0

\* an integer index is accepted by an axis of extent n iff -n <= i < n
IndexError(sel, n) == ~sel.slice /\ ~(-n <= sel.start[1] /\ sel.start[1] < n)

\* A[sel] on the leading axis, for a selector that raises no IndexError
GetSteps(A, sel) ==
    LET n == A.shape[1]
    IN IF sel.slice
       THEN SliceAxis(A, 0, SliceStart(sel, n), SliceLen(sel, n))
       ELSE TakeAxis(A, 0, IF sel.start[1] < 0 THEN sel.start[1] + n ELSE sel.start[1])

(***************************************************************************)
(* What a call produces: an array, Python's None, or a raised exception.   *)
(***************************************************************************)
Return(A) == [kind |-> "ndarray", value |-> A]

ReturnNone == [kind |-> "None"]

Raise(e) == [kind |-> e]

Exceptions == {"IncorrectUsage", "NoData", "ValueError"}

Raised(r) == r.kind \in Exceptions

(***************************************************************************)
(* Raw data.  spin_moments is indexed [step, component, atom, orbital];    *)
(* orbital_moments has the same shape when present and is None otherwise.  *)
(* The arrays are drawn from a family of patterns whose entries differ     *)
(* along every axis, scaled by an amplitude (0: all-zero moments; small:   *)
(* below the display tolerance; large: above it).                          *)
(***************************************************************************)
Components == {1, 2, 4}

Amplitudes == {0, 1, 5}

Seeds == {0, 1}

Pattern(seed, amp, t) == amp * (((seed + t[1] + 2 * t[2] + 3 * t[3] + 5 * t[4]) % 7) - 3)

RawArray(nsteps, ncomp, seed, amp) ==
    NdArray(<<nsteps, ncomp, NumAtoms, NumOrbitals>>, LAMBDA t : Pattern(seed, amp, t))

RawDataOf(n, c, seed, amp) ==
    { [spin_moments |-> RawArray(n, c, seed, amp), orbital_moments |-> orb] :
        orb \in {None, <<RawArray(n, c, seed + 4, amp)>>} }

RawData ==
    UNION { RawDataOf(n, c, seed, amp) :
        n \in 1..MaxSteps, c \in Components, seed \in Seeds, amp \in Amplitudes }

(***************************************************************************)
(* self: the raw data together with the step selection of _slice.Mixin     *)
(* (_steps, and _is_slice telling whether _steps is a slice).              *)
(***************************************************************************)
Self(raw, sel) == [raw_data |-> raw, steps |-> sel, is_slice |-> sel.slice]

\* A[self._steps, c] for an integer component c
StepsOfComponent(A, sel, c) == GetSteps(TakeAxis(A, 1, c), sel)

\* A[self._steps, 1:]
StepsOfDirections(A, sel) == GetSteps(SliceAxis(A, 1, 1, A.shape[2] - 1), sel)

only_charge(self) == self.raw_data.spin_moments.shape[2] = 1

spin_polarized(self) == self.raw_data.spin_moments.shape[2] = 2

noncollinear(self) == self.raw_data.spin_moments.shape[2] = 4

has_orbital_moments(self) == self.raw_data.orbital_moments # None

\* np.zeros(shape[0])[self._steps] raises IndexError
\* mutation: negative indices, which count from the end, are refused
raise_error_if_steps_out_of_bounds_refusing_negative(self) ==
    IF ~self.steps.slice
       /\ ~(0 <= self.steps.start[1]
            /\ self.steps.start[1] < self.raw_data.spin_moments.shape[1])
    THEN Raise("IncorrectUsage") ELSE ReturnNone

raise_error_if_steps_out_of_bounds(self) ==
    IF IndexError(self.steps, self.raw_data.spin_moments.shape[1])
    THEN Raise("IncorrectUsage") ELSE ReturnNone

\* mutation: missing orbital data goes unnoticed
raise_error_if_selection_not_available_ignoring_missing_data(self, selection) ==
    IF selection \notin {"spin", "orbital", "total"} THEN Raise("IncorrectUsage")
    ELSE ReturnNone

\* mutation: an unknown selection is taken for the default
raise_error_if_selection_not_available_accepting_unknown(self, selection) ==
    IF selection # "orbital" \/ has_orbital_moments(self) THEN ReturnNone
    ELSE Raise("NoData")

raise_error_if_selection_not_available(self, selection) ==
    IF selection \notin {"spin", "orbital", "total"} THEN Raise("IncorrectUsage")
    ELSE IF selection # "orbital" \/ has_orbital_moments(self) THEN ReturnNone
    ELSE Raise("NoData")

charges(self) ==
    IF Raised(raise_error_if_steps_out_of_bounds(self))
    THEN raise_error_if_steps_out_of_bounds(self)
    ELSE Return(StepsOfComponent(self.raw_data.spin_moments, self.steps, 0))

\* mutation: the charge component is read instead of the moment
collinear_moments_reading_charges(self) ==
    StepsOfComponent(self.raw_data.spin_moments, self.steps, 0)

collinear_moments(self) == StepsOfComponent(self.raw_data.spin_moments, self.steps, 1)

\* mutation: the total leaves out the orbital contribution
noncollinear_moments_without_orbital(self, selection) ==
    LET spin_moments == StepsOfDirections(self.raw_data.spin_moments, self.steps)
        orbital_moments ==
            IF has_orbital_moments(self)
            THEN StepsOfDirections(self.raw_data.orbital_moments[1], self.steps)
            ELSE ZerosLike(spin_moments)
        moments == IF selection = "orbital" THEN orbital_moments ELSE spin_moments
        direction_axis == IF ndim(moments) = 4 THEN 1 ELSE 0
    IN MoveAxis(moments, direction_axis, -1)

\* mutation: the direction axis is taken to be axis 1 whatever the rank
noncollinear_moments_fixed_axis(self, selection) ==
    LET spin_moments == StepsOfDirections(self.raw_data.spin_moments, self.steps)
        orbital_moments ==
            IF has_orbital_moments(self)
            THEN StepsOfDirections(self.raw_data.orbital_moments[1], self.steps)
            ELSE ZerosLike(spin_moments)
        moments == IF selection = "orbital" THEN orbital_moments
                   ELSE IF selection = "spin" THEN spin_moments
                   ELSE Add(spin_moments, orbital_moments)
    IN MoveAxis(moments, 1, -1)

noncollinear_moments(self, selection) ==
    LET spin_moments == StepsOfDirections(self.raw_data.spin_moments, self.steps)
        orbital_moments ==
            IF has_orbital_moments(self)
            THEN StepsOfDirections(self.raw_data.orbital_moments[1], self.steps)
            ELSE ZerosLike(spin_moments)
        moments == IF selection = "orbital" THEN orbital_moments
                   ELSE IF selection = "spin" THEN spin_moments
                   ELSE Add(spin_moments, orbital_moments)
        direction_axis == IF ndim(moments) = 4 THEN 1 ELSE 0
    IN MoveAxis(moments, direction_axis, -1)

moments(self, selection) ==
    IF Raised(raise_error_if_steps_out_of_bounds(self))
    THEN raise_error_if_steps_out_of_bounds(self)
    ELSE IF Raised(raise_error_if_selection_not_available(self, selection))
    THEN raise_error_if_selection_not_available(self, selection)
    ELSE IF only_charge(self) THEN ReturnNone
    ELSE IF spin_polarized(self) THEN Return(collinear_moments(self))
    ELSE Return(noncollinear_moments(self, selection))

sum_over_orbitals(quantity, is_vector) ==
    IF quantity.kind # "ndarray" THEN quantity
    ELSE IF is_vector THEN Return(Sum(quantity.value, -2))
    ELSE Return(Sum(quantity.value, -1))

\* mutation: the second-to-last axis (the atoms) is summed
total_charges_over_atoms(self) == sum_over_orbitals(charges(self), TRUE)

total_charges(self) == sum_over_orbitals(charges(self), FALSE)

\* mutation: the last axis is summed in every regime
total_moments_over_last_axis(self, selection) ==
    sum_over_orbitals(moments(self, selection), FALSE)

total_moments(self, selection) ==
    sum_over_orbitals(moments(self, selection), noncollinear(self))

(***************************************************************************)
(* to_dict                                                                 *)
(***************************************************************************)
\* the entries _add_spin_and_orbital_moments contributes (none without orbital data)
add_spin_and_orbital_moments(self) ==
    IF ~has_orbital_moments(self) THEN [present |-> FALSE]
    ELSE LET spin_moments == StepsOfDirections(self.raw_data.spin_moments, self.steps)
             orbital_moments ==
                 StepsOfDirections(self.raw_data.orbital_moments[1], self.steps)
             direction_axis == IF ndim(spin_moments) = 4 THEN 1 ELSE 0
         IN [present |-> TRUE,
             spin_moments |-> MoveAxis(spin_moments, direction_axis, -1),
             orbital_moments |-> MoveAxis(orbital_moments, direction_axis, -1)]

to_dict(self) ==
    IF Raised(charges(self)) THEN charges(self)
    ELSE IF Raised(moments(self, "total")) THEN moments(self, "total")
    ELSE [kind |-> "dict",
          charges |-> charges(self),
          moments |-> moments(self, "total"),
          extra |-> add_spin_and_orbital_moments(self)]

(***************************************************************************)
(* Display preparation and to_view                                         *)
(***************************************************************************)
\* length_moments = 1.5
length_moments == [num |-> 3, den |-> 2]

\* 1e-15, in the units of 1e-16 the array entries count
Tolerance == 10

make_sure_moments_have_timestep_dimension(self, moms) ==
    IF ~self.is_slice /\ moms.kind # "None" THEN Return(NewAxis(moms.value)) ELSE moms

\* mutation: the zeros are appended, the scalar lands in the x-component
convert_moment_to_3d_vector_along_x(moms) ==
    IF moms.kind # "None" /\ ndim(moms.value) = 2
    THEN Return(ReshapeAndPadLast(moms.value, 0, 2))
    ELSE moms

convert_moment_to_3d_vector(moms) ==
    IF moms.kind # "None" /\ ndim(moms.value) = 2
    THEN Return(ReshapeAndPadLast(moms.value, 2, 0))
    ELSE moms

\* np.linalg.norm(A, axis=2), squared
NormSquared(A) == Sum(NdArray(A.shape, LAMBDA t : A.data[t] * A.data[t]), 2)

\* np.max(A) of a non-empty array
Max(A) == CHOOSE m \in {A.data[t] : t \in DOMAIN A.data} :
              \A t \in DOMAIN A.data : A.data[t] <= m

\* mutation: the largest component instead of the largest norm
max_length_moments_by_component(moms) ==
    IF moms.kind # "None"
    THEN IF DOMAIN moms.value.data = {} THEN Raise("ValueError")
         ELSE [kind |-> "float",
               sq |-> Max(NdArray(moms.value.shape,
                                  LAMBDA t : moms.value.data[t] * moms.value.data[t]))]
    ELSE [kind |-> "float", sq |-> 0]

\* the length sqrt(sq); np.max of an empty array raises ValueError
max_length_moments(moms) ==
    IF moms.kind # "None"
    THEN IF DOMAIN NormSquared(moms.value).data = {} THEN Raise("ValueError")
         ELSE [kind |-> "float", sq |-> Max(NormSquared(moms.value))]
    ELSE [kind |-> "float", sq |-> 0]

\* the returned array is factor * value, factor = (num / den) / sqrt(sq)
prepare_magnetic_moments_for_plotting(self, selection) ==
    LET total == total_moments(self, selection)
        moms == convert_moment_to_3d_vector(
                    make_sure_moments_have_timestep_dimension(self, total))
        max_length == max_length_moments(moms)
    IN IF Raised(total) THEN total
       ELSE IF Raised(max_length) THEN max_length
       ELSE IF max_length.sq > Tolerance * Tolerance
       THEN [kind |-> "ndarray",
             factor |-> [num |-> length_moments.num, den |-> length_moments.den,
                         sq |-> max_length.sq],
             value |-> moms.value]
       ELSE ReturnNone

\* the viewer of the structure, with the arrows to_view attaches
to_view(self, selection) ==
    LET moms == prepare_magnetic_moments_for_plotting(self, selection)
    IN IF Raised(moms) THEN moms
       ELSE [kind |-> "View",
             ion_arrows |-> IF moms.kind # "None"
                            THEN <<[quantity |-> moms,
                                    label |-> <<selection, "moments">>]>>
                            ELSE None]

(***************************************************************************)
(* The state machine.  A selection magnetism[steps] yields an object on    *)
(* which an accessor is called; the call and its outcome are recorded.     *)
(* The accessors read the object and change nothing, so a further call on  *)
(* the same object would record what that call records as the first one:   *)
(* one recorded call per selected object reaches every (object, call,      *)
(* outcome).                                                               *)
(***************************************************************************)
Selections == {"total", "spin", "orbital", "bogus"}

IndexBound == MaxSteps + 1

StepSelectors ==
    { IndexSelector(i) : i \in (0 - IndexBound)..(IndexBound - 1) }
    \cup { SliceSelector(a, b) : a \in {None, <<0>>, <<1>>, <<IndexBound>>},
                                 b \in {None, <<-1>>, <<1>>, <<IndexBound>>} }

NoCall == [op |-> "none", selection |-> "total"]

NoResult == [kind |-> "none"]

this == [raw_data |-> raw_data, steps |-> steps, is_slice |-> is_slice]

Init ==
    /\ raw_data \in RawData
    /\ steps = IndexSelector(-1)
    /\ is_slice = FALSE
    /\ call = NoCall
    /\ result = NoResult

\* _slice.Mixin.__getitem__: a copy of the object with the steps set
Getitem(sel) ==
    /\ steps' = sel
    /\ is_slice' = sel.slice
    /\ call' = NoCall
    /\ result' = NoResult
    /\ UNCHANGED raw_data

Called(op, selection, outcome) ==
    /\ call = NoCall
    /\ call' = [op |-> op, selection |-> selection]
    /\ result' = outcome
    /\ UNCHANGED <<raw_data, steps, is_slice>>

Charges == Called("charges", "total", charges(this))

TotalCharges == Called("total_charges", "total", total_charges(this))

Moments(selection) == Called("moments", selection, moments(this, selection))

TotalMoments(selection) ==
    Called("total_moments", selection, total_moments(this, selection))

ToDict == Called("to_dict", "total", to_dict(this))

PrepareForPlotting(selection) ==
    Called("prepare", selection, prepare_magnetic_moments_for_plotting(this, selection))

ToView(selection) == Called("to_view", selection, to_view(this, selection))

Next ==
    \/ \E sel \in StepSelectors : Getitem(sel)
    \/ Charges
    \/ TotalCharges
    \/ \E selection \in Selections : Moments(selection)
    \/ \E selection \in Selections : TotalMoments(selection)
    \/ ToDict
    \/ \E selection \in Selections : PrepareForPlotting(selection)
    \/ \E selection \in Selections : ToView(selection)

Spec == Init /\ [][Next]_vars

(***************************************************************************)
(* Vocabulary of the properties.                                           *)
(***************************************************************************)
NumSteps == raw_data.spin_moments.shape[1]

ValidSelections == {"total", "spin", "orbital"}

BoundWithin(b, n) == b = None \/ (0 - n <= b[1] /\ b[1] <= n)

\* the selector names only steps of an axis of extent n
InRange(sel, n) ==
    IF sel.slice THEN BoundWithin(sel.start, n) /\ BoundWithin(sel.stop, n)
    ELSE 0 - n <= sel.start[1] /\ sel.start[1] < n

StepsInRange == InRange(steps, NumSteps)

\* the raw step numbers an in-range selector selects, in order
SelectedSteps(sel, n) ==
    IF sel.slice
    THEN LET lo == IF sel.start = None THEN 0
                   ELSE IF sel.start[1] < 0 THEN sel.start[1] + n ELSE sel.start[1]
             hi == IF sel.stop = None THEN n
                   ELSE IF sel.stop[1] < 0 THEN sel.stop[1] + n ELSE sel.stop[1]
         IN [k \in 1..(IF hi > lo THEN hi - lo ELSE 0) |-> lo + k - 1]
    ELSE <<IF sel.start[1] < 0 THEN sel.start[1] + n ELSE sel.start[1]>>

\* the leading part of a result's shape: a step axis for a slice, none for an index
StepShape(sel, n) == IF sel.slice THEN <<Len(SelectedSteps(sel, n))>> ELSE <<>>

\* the raw step an entry t of a result belongs to
RawStep(sel, n, t) ==
    IF sel.slice THEN SelectedSteps(sel, n)[t[1] + 1] ELSE SelectedSteps(sel, n)[1]

RawSpin(s, c, a, o) == raw_data.spin_moments.data[<<s, c, a, o>>]

RawOrbital(s, c, a, o) == raw_data.orbital_moments[1].data[<<s, c, a, o>>]

\* (steps, atoms, orbitals, directions): entry [.., a, o, d] is F(step, 1 + d, a, o)
DirectionsLast(sel, F(_, _, _, _)) ==
    NdArray(StepShape(sel, NumSteps) \o <<NumAtoms, NumOrbitals, 3>>,
            LAMBDA t : F(RawStep(sel, NumSteps, t), 1 + t[Len(t)],
                         t[Len(t) - 2], t[Len(t) - 1]))

\* (steps, atoms, orbitals): entry [.., a, o] is F(step, c, a, o)
ComponentSlice(sel, c, F(_, _, _, _)) ==
    NdArray(StepShape(sel, NumSteps) \o <<NumAtoms, NumOrbitals>>,
            LAMBDA t : F(RawStep(sel, NumSteps, t), c, t[Len(t) - 1], t[Len(t)]))

CalledOp(op) == call.op = op

CalledWith(op, selection) == call.op = op /\ call.selection = selection

(***************************************************************************)
(* C1: for noncollinear data with orbital moments present and an in-range  *)
(* step selector, moments("total") is the elementwise sum of               *)
(* moments("spin") and moments("orbital"), the spin part being components  *)
(* 1..3 of spin_moments and the orbital part components 1..3 of            *)
(* orbital_moments.                                                        *)
(***************************************************************************)
C1_TotalIsSpinPlusOrbital ==
    (/\ CalledWith("moments", "total")
     /\ noncollinear(this) /\ has_orbital_moments(this) /\ StepsInRange)
    => LET spin == moments(this, "spin")
           orbital == moments(this, "orbital")
       IN /\ result.kind = "ndarray" /\ spin.kind = "ndarray" /\ orbital.kind = "ndarray"
          /\ spin.value = DirectionsLast(steps, RawSpin)
          /\ orbital.value = DirectionsLast(steps, RawOrbital)
          /\ result.value.shape = spin.value.shape
          /\ \A t \in DOMAIN result.value.data :
                result.value.data[t] = spin.value.data[t] + orbital.value.data[t]

\* a total with a non-zero orbital contribution was returned
C1_Witness ==
    /\ CalledWith("moments", "total")
    /\ noncollinear(this) /\ has_orbital_moments(this) /\ StepsInRange
    /\ result.kind = "ndarray"
    /\ \E t \in DOMAIN result.value.data :
          /\ moments(this, "orbital").value.data[t] # 0
          /\ moments(this, "spin").value.data[t] # 0

(***************************************************************************)
(* C2: for noncollinear data without orbital moments and an in-range step  *)
(* selector, moments("total") equals moments("spin") and                   *)
(* moments("orbital") raises NoData instead of returning zeros.            *)
(***************************************************************************)
C2_NoOrbitalData ==
    (/\ CalledOp("moments")
     /\ noncollinear(this) /\ ~has_orbital_moments(this) /\ StepsInRange)
    => /\ call.selection = "total" =>
            /\ result.kind = "ndarray"
            /\ result = moments(this, "spin")
            /\ result.value = DirectionsLast(steps, RawSpin)
       /\ call.selection = "orbital" => result.kind = "NoData"

\* the orbital contribution was requested although the data has none
C2_Witness ==
    /\ CalledWith("moments", "orbital")
    /\ noncollinear(this) /\ ~has_orbital_moments(this) /\ StepsInRange
    /\ result.kind = "NoData"
    /\ moments(this, "total").kind = "ndarray"
    /\ \E t \in DOMAIN moments(this, "total").value.data :
          moments(this, "total").value.data[t] # 0

(***************************************************************************)
(* C3: outside the noncollinear regime the selection has no effect: for    *)
(* charge-only data moments() returns None and for collinear data it       *)
(* returns the component-1 slice of spin_moments, for every in-range step  *)
(* selector.  As stated (for all three selections, whether or not orbital  *)
(* moments are present) the property fails; it holds for "total" and       *)
(* "spin" always and for "orbital" when orbital moments are present, and   *)
(* without them moments("orbital") raises NoData in every regime.          *)
(***************************************************************************)
SelectionIgnored ==
    /\ only_charge(this) => result = ReturnNone
    /\ spin_polarized(this) =>
          /\ result.kind = "ndarray"
          /\ result.value = ComponentSlice(steps, 1, RawSpin)

C3_Original ==
    (/\ CalledOp("moments") /\ call.selection \in ValidSelections
     /\ ~noncollinear(this) /\ StepsInRange)
    => SelectionIgnored

C3_SelectionWithoutEffect ==
    (/\ CalledOp("moments") /\ call.selection \in ValidSelections
     /\ ~noncollinear(this) /\ StepsInRange)
    => IF call.selection = "orbital" /\ ~has_orbital_moments(this)
       THEN result.kind = "NoData"
       ELSE SelectionIgnored

\* collinear moments were returned for the selection "orbital"
C3_Witness ==
    /\ CalledWith("moments", "orbital")
    /\ spin_polarized(this) /\ has_orbital_moments(this) /\ StepsInRange
    /\ result.kind = "ndarray"
    /\ \E t \in DOMAIN result.value.data : result.value.data[t] # 0

(***************************************************************************)
(* C4: step validation.  charges() and moments() raise IncorrectUsage      *)
(* when the step selector is out of range and never raise the step error   *)
(* for an in-range selector.  As stated (for single indices and slices     *)
(* alike) the property fails: a slice is clipped to the axis and never     *)
(* raises.  It holds for single indices, outside -n <= i < n.              *)
(***************************************************************************)
C4_Original ==
    /\ CalledOp("charges") => (result.kind = "IncorrectUsage" <=> ~StepsInRange)
    /\ (CalledOp("moments") /\ ~StepsInRange) => result.kind = "IncorrectUsage"

C4_StepValidation ==
    /\ CalledOp("charges") =>
          /\ result.kind = "IncorrectUsage" <=> (~is_slice /\ ~StepsInRange)
          /\ result.kind # "IncorrectUsage" => result.kind = "ndarray"
          /\ StepsInRange => result = Return(ComponentSlice(steps, 0, RawSpin))
    /\ CalledOp("moments") =>
          /\ (~is_slice /\ ~StepsInRange) => result.kind = "IncorrectUsage"
          /\ (is_slice /\ call.selection \in ValidSelections) =>
                result.kind # "IncorrectUsage"
          /\ (StepsInRange /\ call.selection \in ValidSelections) =>
                result.kind # "IncorrectUsage"

\* an index one past either end of the axis was refused
C4_Witness ==
    /\ CalledOp("charges")
    /\ ~is_slice /\ steps.start[1] \in {NumSteps, 0 - NumSteps - 1}
    /\ result.kind = "IncorrectUsage"

(***************************************************************************)
(* C5: selection validation.  In every regime, with or without orbital     *)
(* moments, for an in-range step selector, moments() and total_moments()   *)
(* raise IncorrectUsage for a selection outside {total, spin, orbital}     *)
(* and never raise IncorrectUsage for one inside it.                       *)
(***************************************************************************)
C5_SelectionValidation ==
    (call.op \in {"moments", "total_moments"} /\ StepsInRange)
    => (result.kind = "IncorrectUsage" <=> call.selection \notin ValidSelections)

\* an unknown selection was refused on data without orbital moments
C5_Witness ==
    /\ CalledWith("total_moments", "bogus")
    /\ ~has_orbital_moments(this) /\ StepsInRange
    /\ result.kind = "IncorrectUsage"

(***************************************************************************)
(* C6: total_charges() is charges() summed over the orbital axis, leaving  *)
(* exactly one value per atom (and selected step), for every regime and    *)
(* every in-range step selector.  As stated (the orbital axis being the    *)
(* second-to-last axis of the charges array) the property fails: charges   *)
(* is indexed (steps, atoms, orbitals) and the orbital axis is its last    *)
(* axis; summing the second-to-last axis would add up the atoms.           *)
(***************************************************************************)
C6_Original ==
    (CalledOp("total_charges") /\ StepsInRange)
    => result = Return(Sum(charges(this).value, -2))

C6_TotalCharges ==
    (CalledOp("total_charges") /\ StepsInRange)
    => /\ result.kind = "ndarray"
       /\ charges(this) = Return(ComponentSlice(steps, 0, RawSpin))
       /\ result.value.shape = StepShape(steps, NumSteps) \o <<NumAtoms>>
       /\ \A t \in DOMAIN result.value.data :
             result.value.data[t] =
                SumUpTo(LAMBDA o : charges(this).value.data[t \o <<o>>], NumOrbitals)

\* charges of several orbitals were added up for a selected step
C6_Witness ==
    /\ CalledOp("total_charges") /\ StepsInRange
    /\ result.kind = "ndarray"
    /\ \E t \in DOMAIN result.value.data :
          /\ result.value.data[t] # 0
          /\ result.value.data[t] # charges(this).value.data[t \o <<0>>]

(***************************************************************************)
(* C7: total_moments(selection) is moments(selection) summed over the      *)
(* orbital axis only: entry [(step,) atom, direction] sums                 *)
(* moments[(step,) atom, o, direction] over o for noncollinear data, entry *)
(* [(step,) atom] sums moments[(step,) atom, o] over o for collinear data, *)
(* and the result is None for charge-only data; for index and slice        *)
(* selectors alike.                                                        *)
(***************************************************************************)
C7_TotalMoments ==
    (/\ CalledOp("total_moments") /\ call.selection \in ValidSelections
     /\ StepsInRange)
    => LET m == moments(this, call.selection)
       IN IF m.kind # "ndarray" THEN result = m /\ (only_charge(this) \/ Raised(m))
          ELSE /\ result.kind = "ndarray"
               /\ ~only_charge(this)
               /\ spin_polarized(this) =>
                     /\ result.value.shape = StepShape(steps, NumSteps) \o <<NumAtoms>>
                     /\ \A t \in DOMAIN result.value.data :
                           result.value.data[t] =
                              SumUpTo(LAMBDA o : m.value.data[t \o <<o>>], NumOrbitals)
               /\ noncollinear(this) =>
                     /\ result.value.shape =
                           StepShape(steps, NumSteps) \o <<NumAtoms, 3>>
                     /\ \A t \in DOMAIN result.value.data :
                           result.value.data[t] =
                              SumUpTo(LAMBDA o : m.value.data[InsertAt(t, Len(t), o)],
                                      NumOrbitals)

\* noncollinear moments of several steps were summed over the orbitals
C7_Witness ==
    /\ CalledOp("total_moments") /\ StepsInRange
    /\ noncollinear(this) /\ is_slice
    /\ result.kind = "ndarray"
    /\ result.value.shape[1] > 1
    /\ \E t \in DOMAIN result.value.data : result.value.data[t] # 0

(***************************************************************************)
(* C8: index order.  For a single step, moments() and to_dict()["moments"] *)
(* have rank one less than for a slice of the same data; for noncollinear  *)
(* data the direction axis (length 3) is the last axis in both, the result *)
(* being indexed (steps, atoms, orbitals, directions) resp. (atoms,        *)
(* orbitals, directions), with entry [.., a, o, d] taken from raw          *)
(* component 1 + d, atom a, orbital o of the same step.                    *)
(***************************************************************************)
RawSelected(selection, s, c, a, o) ==
    IF selection = "spin" THEN RawSpin(s, c, a, o)
    ELSE IF selection = "orbital" THEN RawOrbital(s, c, a, o)
    ELSE RawSpin(s, c, a, o)
         + (IF has_orbital_moments(this) THEN RawOrbital(s, c, a, o) ELSE 0)

ReturnedMoments == IF CalledOp("to_dict") THEN result.moments ELSE result

AllSteps == SliceSelector(None, None)

C8_IndexOrder ==
    (/\ call.op \in {"moments", "to_dict"} /\ StepsInRange
     /\ result.kind \in {"ndarray", "dict"}
     /\ ~only_charge(this))
    => /\ ReturnedMoments.kind = "ndarray"
       /\ ndim(ReturnedMoments.value) =
             (IF noncollinear(this) THEN 3 ELSE 2) + (IF is_slice THEN 1 ELSE 0)
       /\ ~is_slice =>
             ndim(ReturnedMoments.value) + 1
                = ndim(moments(Self(raw_data, AllSteps), call.selection).value)
       /\ noncollinear(this) =>
             /\ ReturnedMoments.value.shape[ndim(ReturnedMoments.value)] = 3
             /\ ReturnedMoments.value =
                   DirectionsLast(steps, LAMBDA s, c, a, o :
                                            RawSelected(call.selection, s, c, a, o))

\* to_dict returned the noncollinear moments of a single step
C8_Witness ==
    /\ CalledOp("to_dict") /\ StepsInRange
    /\ noncollinear(this) /\ ~is_slice /\ NumSteps > 1
    /\ result.kind = "dict"
    /\ result.moments.value.shape = <<NumAtoms, NumOrbitals, 3>>
    /\ \E t \in DOMAIN result.moments.value.data : result.moments.value.data[t] # 0

(***************************************************************************)
(* C9: display rescaling.  With M the largest Euclidean norm of            *)
(* total_moments(selection) over all atoms and selected steps: if          *)
(* M > 1e-15, display preparation returns every vector multiplied by the   *)
(* one factor 1.5 / M, so that the longest returned vector has length 1.5; *)
(* if all moments are zero, or the data is charge-only, it returns None    *)
(* and to_view attaches no arrows.                                         *)
(***************************************************************************)
SelectsSomeStep == Len(SelectedSteps(steps, NumSteps)) > 0

\* the indices [(step,) atom] of the vectors of total_moments
VectorIndices == Indices(StepShape(steps, NumSteps) \o <<NumAtoms>>)

\* component d of the vector [(step,) atom] of total_moments, collinear along z
VectorComponent(total, t, d) ==
    IF noncollinear(this) THEN total.data[t \o <<d>>]
    ELSE IF d = 2 THEN total.data[t] ELSE 0

LengthSquared(total, t) ==
    SumUpTo(LAMBDA d : VectorComponent(total, t, d) * VectorComponent(total, t, d), 3)

LargestLengthSquared(total) ==
    CHOOSE m \in {LengthSquared(total, t) : t \in VectorIndices} :
        \A t \in VectorIndices : LengthSquared(total, t) <= m

\* the index [step, atom, direction] under which display preparation returns it
DisplayIndex(t, d) == (IF is_slice THEN <<>> ELSE <<0>>) \o t \o <<d>>

Rescaled(prepared, total) ==
    LET M2 == LargestLengthSquared(total)
    IN /\ M2 > Tolerance * Tolerance =>
             /\ prepared.kind = "ndarray"
             /\ prepared.factor.num * 2 = prepared.factor.den * 3
             /\ prepared.factor.sq = M2
             /\ \A t \in VectorIndices : \A d \in 0..2 :
                   prepared.value.data[DisplayIndex(t, d)] = VectorComponent(total, t, d)
       /\ M2 = 0 => prepared = ReturnNone

C9_DisplayRescaling ==
    (/\ call.op \in {"prepare", "to_view"} /\ call.selection \in ValidSelections
     /\ StepsInRange /\ SelectsSomeStep
     /\ ~Raised(total_moments(this, call.selection)))
    => LET total == total_moments(this, call.selection)
           prepared == IF CalledOp("prepare") THEN result
                       ELSE IF result.ion_arrows = None THEN ReturnNone
                       ELSE result.ion_arrows[1].quantity
       IN /\ CalledOp("to_view") => result.kind = "View"
          /\ IF total.kind = "None" THEN only_charge(this) /\ prepared = ReturnNone
             ELSE Rescaled(prepared, total.value)

\* moments whose longest vector is not along an axis were rescaled
C9_Witness ==
    /\ CalledOp("prepare") /\ StepsInRange /\ SelectsSomeStep
    /\ noncollinear(this)
    /\ result.kind = "ndarray"
    /\ result.factor.sq > Tolerance * Tolerance
    /\ \E t \in DOMAIN result.value.data :
          /\ result.value.data[t] # 0
          /\ result.value.data[t] * result.value.data[t] # result.factor.sq

(***************************************************************************)
(* C10: display shape.  Whatever display preparation returns is indexed    *)
(* [step, atom, direction] with 3 direction components, for single steps   *)
(* (a step axis of length 1 is inserted) and slices, collinear and         *)
(* noncollinear data; a collinear scalar m becomes the vector (0, 0, m).   *)
(***************************************************************************)
C10_DisplayShape ==
    (CalledOp("prepare") /\ result.kind = "ndarray")
    => /\ ndim(result.value) = 3
       /\ result.value.shape[2] = NumAtoms
       /\ result.value.shape[3] = 3
       /\ ~is_slice => result.value.shape[1] = 1
       /\ (is_slice /\ StepsInRange) =>
             result.value.shape[1] = Len(SelectedSteps(steps, NumSteps))
       /\ (spin_polarized(this) /\ StepsInRange) =>
             \A t \in VectorIndices :
                /\ result.value.data[DisplayIndex(t, 0)] = 0
                /\ result.value.data[DisplayIndex(t, 1)] = 0
                /\ result.value.data[DisplayIndex(t, 2)] =
                      total_moments(this, call.selection).value.data[t]

\* collinear moments of a single step were prepared for display
C10_Witness ==
    /\ CalledOp("prepare") /\ StepsInRange
    /\ spin_polarized(this) /\ ~is_slice
    /\ result.kind = "ndarray"
    /\ result.value.shape = <<1, NumAtoms, 3>>
    /\ \E a \in 0..(NumAtoms - 1) : result.value.data[<<0, a, 2>>] < 0

====
